---- MODULE Spec2Model ----
(***************************************************************************)
(* Moodyssey (src/main.py): the persistence layer (DataManager and its two *)
(* subclasses), the authentication service (register_user,                *)
(* authenticate_user), the MoodEntry record with its dictionary            *)
(* conversions, and the Streamlit page handlers that call them.            *)
(*                                                                         *)
(* Python values that travel through json.load / json.dump are modelled as *)
(* tagged records [t |-> <type name>, v |-> <payload>], so that a file     *)
(* holding a value of the wrong shape is a value the operators must cope   *)
(* with exactly as the Python code does (KeyError, TypeError, ValueError). *)
(***************************************************************************)
EXTENDS Integers, Sequences, FiniteSets, TLC

(***************************************************************************)
(* Bounds of the model.                                                    *)
(***************************************************************************)
\* number of Submit Mood clicks that save an entry, over all users
MaxEntries == 3

(***************************************************************************)
(* Python values.                                                          *)
(***************************************************************************)
PyNone == [t |-> "NoneType"]
PyStr(s) == [t |-> "str", v |-> s]
PyInt(n) == [t |-> "int", v |-> n]
PyList(items) == [t |-> "list", v |-> items]
PyDict(members) == [t |-> "dict", v |-> members]

\* Python truthiness, as used by `if raw_entries` and `if not new_username`
Truthy(x) ==
    CASE x.t = "NoneType" -> FALSE
      [] x.t = "str" -> x.v # ""
      [] x.t = "int" -> x.v # 0
      [] x.t = "list" -> x.v # <<>>
      [] x.t = "dict" -> DOMAIN x.v # {}

\* str.strip() on the note texts of the model: whitespace-only text becomes ""
Blank == {"", " ", "  "}
strip(s) == IF s \in Blank THEN "" ELSE s

(***************************************************************************)
(* datetime, datetime.isoformat() and datetime.fromisoformat().            *)
(* A datetime is a calendar date, a time of day and a microsecond count.   *)
(* isoformat() drops the fraction when the microsecond field is 0;         *)
(* fromisoformat() reads a missing fraction as 0 microseconds.             *)
(***************************************************************************)
Dates == {"2024-01-01", "2024-01-02"}
Times == {"00:00:00", "09:30:15"}
Microseconds == {0, 5, 250000}
\* "" for a naive datetime (what utcnow() returns), else the UTC offset
Offsets == {"", "+05:30"}
Datetimes == [date : Dates, time : Times, microsecond : Microseconds, tz : Offsets]

\* "%06d" of the microsecond field
Micro6(us) ==
    CASE us = 0 -> "000000"
      [] us = 5 -> "000005"
      [] us = 250000 -> "250000"

\* an isoformat that stops at the seconds, as strftime("%Y-%m-%dT%H:%M:%S")
isoformat_seconds(dt) == dt.date \o "T" \o dt.time \o dt.tz

isoformat(dt) ==
    dt.date \o "T" \o dt.time \o
        (IF dt.microsecond = 0 THEN "" ELSE "." \o Micro6(dt.microsecond)) \o dt.tz

\* the texts datetime.fromisoformat reads as dt (Python 3.11): the isoformat
\* text, the same with the fraction written out, with a blank for the "T", and
\* the bare date for midnight
IsoTexts(dt) ==
    {dt.date \o sep \o dt.time \o "." \o Micro6(dt.microsecond) \o dt.tz :
        sep \in {"T", " "}}
    \cup (IF dt.microsecond = 0
          THEN {dt.date \o sep \o dt.time \o dt.tz : sep \in {"T", " "}} ELSE {})
    \cup (IF dt.microsecond = 0 /\ dt.time = "00:00:00" /\ dt.tz = ""
          THEN {dt.date} ELSE {})

\* datetime.fromisoformat(x): TypeError for a non-string, ValueError for a
\* text that is no ISO date-time
ParseIso ==
    [text \in UNION {IsoTexts(dt) : dt \in Datetimes} |->
        CHOOSE dt \in Datetimes : text \in IsoTexts(dt)]

fromisoformat(x) ==
    IF x.t # "str" THEN [raised |-> "TypeError"]
    ELSE IF x.v \notin DOMAIN ParseIso THEN [raised |-> "ValueError"]
    ELSE [raised |-> "", value |-> ParseIso[x.v]]

(***************************************************************************)
(* class MoodEntry                                                         *)
(***************************************************************************)
\* MoodEntry.__init__(mood, note, timestamp); `now` is what datetime.utcnow()
\* returns when no timestamp is given. mood is a Python value here because
\* from_dict passes whatever the file held.
MoodEntry(mood, note, timestamp, now) ==
    IF mood.t # "str" \/ ~Truthy(mood)
    THEN [raised |-> "ValueError"]
    ELSE [raised |-> "",
          value |-> [mood |-> mood.v, note |-> note,
                     timestamp |-> IF timestamp = PyNone THEN now ELSE timestamp]]

to_dict(e) ==
    PyDict([mood |-> PyStr(e.mood), note |-> e.note,
            timestamp |-> PyStr(isoformat(e.timestamp))])

\* data[key] for a key of type str
Subscript(data, key) ==
    IF data.t # "dict" THEN [raised |-> "TypeError"]
    ELSE IF key \notin DOMAIN data.v THEN [raised |-> "KeyError"]
    ELSE [raised |-> "", value |-> data.v[key]]

\* data.get(key): None when the key is missing (AttributeError off a dict
\* cannot happen where from_dict calls it: data["timestamp"] was read first)
DictGet(data, key) == IF key \in DOMAIN data.v THEN data.v[key] ELSE PyNone

from_dict(data) ==
    LET ts_raw == Subscript(data, "timestamp") IN
    IF ts_raw.raised # "" THEN [raised |-> ts_raw.raised]
    ELSE LET timestamp == fromisoformat(ts_raw.value) IN
         IF timestamp.raised # "" THEN [raised |-> timestamp.raised]
         ELSE LET mood == Subscript(data, "mood") IN
              IF mood.raised # "" THEN [raised |-> mood.raised]
              ELSE MoodEntry(mood.value, DictGet(data, "note"),
                             timestamp.value, timestamp.value)

(***************************************************************************)
(* Files. A file is absent, has zero length, holds text json.load cannot   *)
(* parse (which is also what a write that stopped half-way leaves), or     *)
(* holds a JSON document, kept as the Python value json.load returns.      *)
(***************************************************************************)
Absent == [kind |-> "absent"]
ZeroLength == [kind |-> "empty"]
Garbage == [kind |-> "garbage"]
JsonFile(val) == [kind |-> "json", val |-> val]

\* what the operating system does to a read (open "r" + read) and to a write
\* (open "w", whose success truncates the file, then the write and the close)
ReadOutcomes == {"ok", "oserror"}
WriteOutcomes == {"ok", "open_error", "write_error_empty", "write_error_partial"}

(***************************************************************************)
(* class DataManager                                                       *)
(***************************************************************************)
\* the st.warning / st.error calls of the data layer
WarnCorrupt == "warning: Corrupted or empty data file. Starting fresh."
ErrorLoading == "error: An unexpected error occurred loading data"
ErrorSaving == "error: Error saving data"

\* _load_raw_data: {} for a missing or zero-length file; {} and st.warning
\* for a JSONDecodeError / ValueError; {} and st.error for any other
\* exception; the parsed document otherwise. signals lists the st.warning /
\* st.error calls made.
load_raw_data(file, read) ==
    IF file.kind \in {"absent", "empty"}
    THEN [data |-> PyDict(<<>>), signals |-> <<>>]
    ELSE IF read = "oserror"
    THEN [data |-> PyDict(<<>>), signals |-> <<ErrorLoading>>]
    ELSE IF file.kind = "garbage"
    THEN [data |-> PyDict(<<>>), signals |-> <<WarnCorrupt>>]
    ELSE [data |-> file.val, signals |-> <<>>]

\* _save_raw_data: open(path, "w") then json.dump; any exception is reported
\* with st.error and turned into False. file is the content the path holds
\* when the call returns.
save_raw_data(file, data, write) ==
    CASE write = "ok" ->
            [file |-> JsonFile(data), ok |-> TRUE, signals |-> <<>>]
      [] write = "open_error" ->
            [file |-> file, ok |-> FALSE, signals |-> <<ErrorSaving>>]
      [] write = "write_error_empty" ->
            [file |-> ZeroLength, ok |-> FALSE, signals |-> <<ErrorSaving>>]
      [] write = "write_error_partial" ->
            [file |-> Garbage, ok |-> FALSE, signals |-> <<ErrorSaving>>]

(***************************************************************************)
(* bcrypt, as register_user and authenticate_user call it: hashpw salts    *)
(* the password with the salt gensalt() drew and returns a text holding    *)
(* the salt and the digest; checkpw re-hashes with the salt of the stored  *)
(* text and compares.                                                      *)
(***************************************************************************)
Salts == {"saltA", "saltB"}

hashpw(password, salt) == "$2b$12$" \o salt \o "$H(" \o password \o ")"

\* a checkpw that compares nothing
checkpw_any(password, hashed_password) == hashed_password # ""

checkpw(password, hashed_password) ==
    \E salt \in Salts : hashpw(password, salt) = hashed_password

(***************************************************************************)
(* class UserDataManager                                                   *)
(***************************************************************************)
\* the account table with `username` set to a fresh credential record
WithAccount(users, username, hashed_pass) ==
    PyDict([k \in DOMAIN users.v \cup {username} |->
              IF k = username
              THEN PyDict([hashed_password |-> PyStr(hashed_pass)])
              ELSE users.v[k]])

\* register_user without its `if username in users` check
register_loaded_overwrite(file, users, username, password, salt, write) ==
    LET saved == save_raw_data(file,
                     WithAccount(users, username, hashpw(password, salt)), write)
    IN [file |-> saved.file, ok |-> saved.ok,
        msg |-> IF saved.ok
                THEN "Account created successfully! You can now log in."
                ELSE "Failed to create account due to a saving error.",
        signals |-> saved.signals]

\* register_user that adds the account to the table now on disk, not to the
\* table it loaded
register_loaded_merge(file, users, username, password, salt, write) ==
    IF username \in DOMAIN users.v
    THEN [file |-> file, ok |-> FALSE, msg |-> "Username already exists.",
          signals |-> <<>>]
    ELSE LET saved == save_raw_data(file,
                          WithAccount(load_raw_data(file, "ok").data, username,
                                      hashpw(password, salt)), write)
         IN [file |-> saved.file, ok |-> saved.ok,
             msg |-> IF saved.ok
                     THEN "Account created successfully! You can now log in."
                     ELSE "Failed to create account due to a saving error.",
             signals |-> saved.signals]

\* register_user reporting success whatever save returned
register_loaded_ignores_save(file, users, username, password, salt, write) ==
    IF username \in DOMAIN users.v
    THEN [file |-> file, ok |-> FALSE, msg |-> "Username already exists.",
          signals |-> <<>>]
    ELSE LET saved == save_raw_data(file,
                          WithAccount(users, username, hashpw(password, salt)), write)
         IN [file |-> saved.file, ok |-> TRUE,
             msg |-> "Account created successfully! You can now log in.",
             signals |-> saved.signals]

\* register_user, given the table its load returned
register_loaded(file, users, username, password, salt, write) ==
    IF username \in DOMAIN users.v
    THEN [file |-> file, ok |-> FALSE, msg |-> "Username already exists.",
          signals |-> <<>>]
    ELSE LET hashed_pass == hashpw(password, salt)
             saved == save_raw_data(file,
                          WithAccount(users, username, hashed_pass), write)
         IN [file |-> saved.file, ok |-> saved.ok,
             msg |-> IF saved.ok
                     THEN "Account created successfully! You can now log in."
                     ELSE "Failed to create account due to a saving error.",
             signals |-> saved.signals]

register_user(file, username, password, salt, read, write) ==
    LET loaded == load_raw_data(file, read)
        r == register_loaded(file, loaded.data, username, password, salt, write)
    IN [r EXCEPT !.signals = loaded.signals \o r.signals]

authenticate_user(file, username, password, read) ==
    LET loaded == load_raw_data(file, read)
        users == loaded.data
    IN IF username \notin DOMAIN users.v
       THEN [ok |-> FALSE, msg |-> "Username not found.",
             signals |-> loaded.signals]
       ELSE IF checkpw(password, users.v[username].v.hashed_password.v)
       THEN [ok |-> TRUE, msg |-> "Logged in successfully!",
             signals |-> loaded.signals]
       ELSE [ok |-> FALSE, msg |-> "Incorrect password.",
             signals |-> loaded.signals]

(***************************************************************************)
(* class MoodEntriesDataManager                                            *)
(***************************************************************************)
\* [MoodEntry.from_dict(entry) for entry in items]: the entries built, or the
\* first exception a from_dict raises
RECURSIVE from_dict_all(_)
from_dict_all(items) ==
    IF items = <<>> THEN [raised |-> "", entries |-> <<>>]
    ELSE LET first == from_dict(Head(items)) IN
         IF first.raised # "" THEN [raised |-> first.raised, entries |-> <<>>]
         ELSE LET rest == from_dict_all(Tail(items)) IN
              IF rest.raised # "" THEN rest
              ELSE [raised |-> "", entries |-> <<first.value>> \o rest.entries]

\* what `for entry in raw_entries` iterates over: the elements of a list, the
\* keys of a dict, the characters of a str; anything else is not iterable.
\* Only reached for a truthy value, and from_dict raises on the first key or
\* character (a str), so one str item stands for the keys and the characters.
Iterate(x) ==
    CASE x.t = "list" -> [raised |-> "", items |-> x.v]
      [] x.t = "dict" ->
            [raised |-> "",
             items |-> LET k == CHOOSE k \in DOMAIN x.v : TRUE
                       IN <<PyStr(k)>>]
      [] x.t = "str" -> [raised |-> "", items |-> <<PyStr(x.v)>>]
      [] OTHER -> [raised |-> "TypeError", items |-> <<>>]

\* MoodEntriesDataManager.load(username), on the content of that user's file
load_entries(file, read) ==
    LET loaded == load_raw_data(file, read)
        raw_entries == loaded.data
    IN IF ~Truthy(raw_entries)
       THEN [raised |-> "", entries |-> <<>>, signals |-> loaded.signals]
       ELSE LET it == Iterate(raw_entries) IN
            IF it.raised # ""
            THEN [raised |-> it.raised, entries |-> <<>>,
                  signals |-> loaded.signals]
            ELSE LET built == from_dict_all(it.items)
                 IN [raised |-> built.raised, entries |-> built.entries,
                     signals |-> loaded.signals]

\* a save that writes the newest entry alone
save_entries_last_only(file, entries, write) ==
    save_raw_data(file,
        PyList(IF entries = <<>> THEN <<>>
               ELSE <<to_dict(entries[Len(entries)])>>), write)

\* MoodEntriesDataManager.save(username, entries)
save_entries(file, entries, write) ==
    save_raw_data(file,
        PyList([i \in 1..Len(entries) |-> to_dict(entries[i])]), write)

(***************************************************************************)
(* The running application: the two kinds of file, one browser session,    *)
(* and what the last handler showed.                                       *)
(***************************************************************************)
Usernames == {"alice", "bob"}
Passwords == {"x", "y"}
mood_options == <<"Happy", "Neutral", "Sad", "Angry", "Anxious", "Tired", "Excited">>
\* notes typed into the text_area
NoteInputs == {"", "  ", "rainy"}

VARIABLES
    users_json,     \* content of users.json
    mood_files,     \* content of mood_entries_<username>.json, per username
    session,        \* st.session_state: logged_in, username, page
    out,            \* the last handler run: its call, result and st.* signals
    registered,     \* history: username -> credential of its first successful registration
    appended,       \* history: username -> entries whose Submit Mood succeeded, in order
    procs,          \* register_user calls in flight in independent processes
    probe           \* entries handed to the conversions, and what came back

vars == <<users_json, mood_files, session, out, registered, appended, procs, probe>>

Procs == {"p1", "p2"}
IdleProc == [pc |-> "idle", username |-> "", password |-> "", salt |-> "",
             users |-> PyDict(<<>>), ok |-> FALSE, msg |-> ""]

NoOut == [op |-> "none", user |-> "", password |-> "", ok |-> FALSE, msg |-> "",
          raised |-> "", signals |-> <<>>, entries |-> <<>>,
          df |-> <<>>, daily_mood_category_counts |-> <<>>]

NoProbe == [stage |-> "none", entries |-> <<>>, dicts |-> <<>>, back |-> <<>>]

\* session state initialisation
InitSession == [logged_in |-> FALSE, username |-> PyNone, page |-> "home"]

Init ==
    /\ users_json = Absent
    /\ mood_files = [u \in Usernames |-> Absent]
    /\ session = InitSession
    /\ out = NoOut
    /\ registered = <<>>
    /\ appended = [u \in Usernames |-> <<>>]
    /\ procs = [p \in Procs |-> IdleProc]
    /\ probe = NoProbe

\* the pages the routing renders for a logged-in session, and for any other
AuthenticatedPages == {"welcome_authenticated", "mood_input", "dashboard"}
PublicPages == {"home", "login", "signup"}

\* main page routing: the page function a run of the script calls for session
\* state s. "rerun" stands for the two else branches, which call no page
\* function: they reset s.page and rerun the script.
Route(s) ==
    IF s.logged_in
    THEN (IF s.page \in AuthenticatedPages THEN s.page ELSE "rerun")
    ELSE (IF s.page \in PublicPages THEN s.page ELSE "rerun")

\* a button that only sets st.session_state.page and reruns
GoTo(from, logged_in, page) ==
    /\ session.logged_in = logged_in
    /\ Route(session) = from
    /\ session' = [session EXCEPT !.page = page]
    /\ out' = [NoOut EXCEPT !.op = "navigate"]
    /\ UNCHANGED <<users_json, mood_files, registered, appended, procs, probe>>

HomeLogIn == GoTo("home", FALSE, "login")
HomeSignUp == GoTo("home", FALSE, "signup")
LoginBack == GoTo("login", FALSE, "home")
SignupBack == GoTo("signup", FALSE, "home")
WelcomeCheckIn == GoTo("welcome_authenticated", TRUE, "mood_input")
WelcomeDashboard == GoTo("welcome_authenticated", TRUE, "dashboard")
MoodInputBack == GoTo("mood_input", TRUE, "dashboard")

\* a logout that clears the flag and leaves the username and the page
Logout_flag_only ==
    /\ Route(session) \in AuthenticatedPages
    /\ session.logged_in
    /\ session' = [session EXCEPT !.logged_in = FALSE]
    /\ out' = [NoOut EXCEPT !.op = "logout"]
    /\ UNCHANGED <<users_json, mood_files, registered, appended, procs, probe>>

\* the sidebar's Logout button, drawn on every authenticated page
Logout ==
    /\ Route(session) \in AuthenticatedPages
    /\ session.logged_in
    /\ session' = [logged_in |-> FALSE, username |-> PyNone, page |-> "home"]
    /\ out' = [NoOut EXCEPT !.op = "logout"]
    /\ UNCHANGED <<users_json, mood_files, registered, appended, procs, probe>>

\* signup_page, "Create Account"
SignupCreate(new_username, new_password, confirm_password, salt, read, write) ==
    /\ Route(session) = "signup"
    /\ IF new_username = "" \/ new_password = "" \/ confirm_password = ""
       THEN /\ out' = [NoOut EXCEPT !.op = "signup",
                          !.msg = "Please fill in all fields.",
                          !.signals = <<"warning: Please fill in all fields.">>]
            /\ UNCHANGED <<users_json, session, registered>>
       ELSE IF new_password # confirm_password
       THEN /\ out' = [NoOut EXCEPT !.op = "signup",
                          !.msg = "Passwords do not match.",
                          !.signals = <<"error: Passwords do not match.">>]
            /\ UNCHANGED <<users_json, session, registered>>
       ELSE LET r == register_user(users_json, new_username, new_password,
                                   salt, read, write)
            IN /\ users_json' = r.file
               /\ out' = [NoOut EXCEPT !.op = "register", !.user = new_username,
                             !.password = new_password, !.ok = r.ok, !.msg = r.msg,
                             !.signals = r.signals \o
                                 <<(IF r.ok THEN "success: " ELSE "error: ") \o r.msg>>]
               /\ session' = IF r.ok THEN [session EXCEPT !.page = "login"]
                             ELSE session
               /\ registered' =
                     IF r.ok /\ new_username \notin DOMAIN registered
                     THEN [k \in DOMAIN registered \cup {new_username} |->
                             IF k = new_username
                             THEN [password |-> new_password,
                                   hashed_password |-> hashpw(new_password, salt)]
                             ELSE registered[k]]
                     ELSE registered
    /\ UNCHANGED <<mood_files, appended, procs, probe>>

\* a login that opens the session whatever authenticate_user returned
LoginClick_unchecked(username, password, read) ==
    /\ Route(session) = "login"
    /\ LET r == authenticate_user(users_json, username, password, read)
       IN out' = [NoOut EXCEPT !.op = "authenticate", !.user = username,
                     !.password = password, !.ok = r.ok, !.msg = r.msg,
                     !.signals = r.signals]
    /\ session' = [logged_in |-> TRUE, username |-> PyStr(username),
                   page |-> "welcome_authenticated"]
    /\ UNCHANGED <<users_json, mood_files, registered, appended, procs, probe>>

\* login_page, "Login"
LoginClick(username, password, read) ==
    /\ Route(session) = "login"
    /\ LET r == authenticate_user(users_json, username, password, read)
       IN /\ out' = [NoOut EXCEPT !.op = "authenticate", !.user = username,
                        !.password = password, !.ok = r.ok, !.msg = r.msg,
                        !.signals = r.signals \o
                            <<(IF r.ok THEN "success: " ELSE "error: ") \o r.msg>>]
          /\ session' = IF r.ok
                        THEN [logged_in |-> TRUE, username |-> PyStr(username),
                              page |-> "welcome_authenticated"]
                        ELSE session
    /\ UNCHANGED <<users_json, mood_files, registered, appended, procs, probe>>

\* the number of elements of the sequences f[k], k in S
RECURSIVE TotalLen(_, _)
TotalLen(f, S) ==
    IF S = {} THEN 0
    ELSE LET k == CHOOSE k \in S : TRUE
         IN Len(f[k]) + TotalLen(f, S \ {k})

\* the paths the data managers open; mood_files is indexed by the username,
\* which names the same file as long as mood_file_path is one-to-one
users_file_path == "users.json"
mood_file_path(username) == "mood_entries_" \o username \o ".json"

\* every session's mood file is alice's
SessionUser_fixed == "alice"

\* the username load and save are called with: st.session_state.username
SessionUser == session.username.v

\* mood_input_page, "Submit Mood"; `now` is datetime.utcnow() at the click
SubmitMood(mood, note, now, read, write) ==
    /\ Route(session) = "mood_input"
    /\ LET new_entry == MoodEntry(PyStr(mood),
                            IF strip(note) # "" THEN PyStr(note) ELSE PyNone,
                            PyNone, now).value
           loaded == load_entries(mood_files[SessionUser], read)
       IN IF loaded.raised # ""
          THEN /\ out' = [NoOut EXCEPT !.op = "append", !.user = SessionUser,
                             !.raised = loaded.raised,
                             !.signals = loaded.signals]
               /\ UNCHANGED <<mood_files, session, appended>>
          ELSE LET all_entries == Append(loaded.entries, new_entry)
                   saved == save_entries(mood_files[SessionUser], all_entries, write)
               IN /\ TotalLen(appended, Usernames) < MaxEntries
                  /\ mood_files' = [mood_files EXCEPT ![SessionUser] = saved.file]
                  /\ out' = [NoOut EXCEPT !.op = "append", !.user = SessionUser,
                                !.ok = saved.ok,
                                !.msg = IF saved.ok THEN "Mood logged successfully!"
                                        ELSE "Failed to save mood.",
                                !.signals = loaded.signals \o saved.signals \o
                                    (IF saved.ok
                                     THEN <<"success: Mood logged successfully!",
                                            "info: You can now view your updated dashboard.">>
                                     ELSE <<"error: Failed to save mood.">>)]
                  /\ session' = IF saved.ok
                                THEN [session EXCEPT !.page = "dashboard"]
                                ELSE session
                  /\ appended' = IF saved.ok
                                 THEN [appended EXCEPT ![SessionUser] =
                                          Append(@, new_entry)]
                                 ELSE appended
    /\ UNCHANGED <<users_json, registered, procs, probe>>

(***************************************************************************)
(* Mood categories and the tables dashboard_page derives from the entries. *)
(***************************************************************************)
\* the dict, as the sequence of its items in insertion order
MOOD_CATEGORIES ==
    <<[category |-> "Positive", moods |-> <<"Happy", "Excited">>],
      [category |-> "Neutral", moods |-> <<"Neutral">>],
      [category |-> "Negative", moods |-> <<"Sad", "Angry", "Anxious", "Tired">>]>>

\* x in list
In(x, list) == \E i \in 1..Len(list) : list[i] = x

\* a categorisation with no "Unknown": what is in no list counts as neutral
get_mood_category_no_unknown(mood) ==
    IF In(mood, MOOD_CATEGORIES[1].moods) THEN "Positive"
    ELSE IF In(mood, MOOD_CATEGORIES[3].moods) THEN "Negative"
    ELSE "Neutral"

\* the loop of get_mood_category from the i-th item on
RECURSIVE category_from(_, _)
category_from(mood, i) ==
    IF i > Len(MOOD_CATEGORIES) THEN "Unknown"
    ELSE IF In(mood, MOOD_CATEGORIES[i].moods) THEN MOOD_CATEGORIES[i].category
    ELSE category_from(mood, i + 1)

get_mood_category(mood) == category_from(mood, 1)

\* df with the columns the day-by-category chart reads: one row per entry, in
\* the order of all_entries; Date is Timestamp.dt.date
DataFrame(all_entries) ==
    [i \in 1..Len(all_entries) |->
        [Timestamp |-> all_entries[i].timestamp,
         Mood |-> all_entries[i].mood,
         Note |-> IF Truthy(all_entries[i].note) THEN all_entries[i].note.v ELSE "",
         Date |-> all_entries[i].timestamp.date,
         MoodCategory |-> get_mood_category(all_entries[i].mood)]]

\* a grouping that records which (Date, MoodCategory) pairs occur, not how often
RECURSIVE groupby_any(_, _)
groupby_any(df, n) ==
    IF n = 0 THEN <<>>
    ELSE LET s == groupby_any(df, n - 1)
             key == <<df[n].Date, df[n].MoodCategory>>
         IN [k \in DOMAIN s \cup {key} |-> 1]

\* df.groupby(['Date', 'MoodCategory']).size() over the first n rows: a row
\* for every pair that occurs, holding the number of rows of df with that pair
RECURSIVE groupby_size(_, _)
groupby_size(df, n) ==
    IF n = 0 THEN <<>>
    ELSE LET s == groupby_size(df, n - 1)
             key == <<df[n].Date, df[n].MoodCategory>>
         IN [k \in DOMAIN s \cup {key} |->
                IF k = key THEN (IF k \in DOMAIN s THEN s[k] ELSE 0) + 1
                ELSE s[k]]

\* .unstack().fillna(0): a row per Date that occurs, a column per
\* MoodCategory that occurs, 0 where the pair has no row
unstack_fillna(s) ==
    [d \in {k[1] : k \in DOMAIN s} |->
        [c \in {k[2] : k \in DOMAIN s} |->
            IF <<d, c>> \in DOMAIN s THEN s[<<d, c>>] ELSE 0]]

\* daily_mood_category_counts
daily_mood_category_counts(df) == unstack_fillna(groupby_size(df, Len(df)))

\* dashboard_page: every run of the page loads the user's entries first; with
\* entries it builds df and the day-by-category counts (for no entry the page
\* returns before them: both stay empty)
DashboardRender(read) ==
    /\ Route(session) = "dashboard"
    /\ LET loaded == load_entries(mood_files[SessionUser], read)
       IN out' = [NoOut EXCEPT !.op = "load", !.user = SessionUser,
                     !.ok = (loaded.raised = ""), !.raised = loaded.raised,
                     !.entries = loaded.entries,
                     !.signals = loaded.signals \o
                         (IF loaded.raised = "" /\ loaded.entries = <<>>
                          THEN <<"info: No mood entries found yet.">> ELSE <<>>),
                     !.df = IF loaded.raised = "" THEN DataFrame(loaded.entries)
                            ELSE <<>>,
                     !.daily_mood_category_counts =
                         IF loaded.raised = ""
                         THEN daily_mood_category_counts(DataFrame(loaded.entries))
                         ELSE <<>>]
    /\ UNCHANGED <<users_json, mood_files, session, registered, appended, procs, probe>>

\* a dashboard button: drawn, and so clickable, only on the branch of the page
\* that the loaded entries select (`empty`: the "no entries yet" branch)
DashboardGoTo(read, empty, page) ==
    /\ Route(session) = "dashboard"
    /\ LET loaded == load_entries(mood_files[SessionUser], read)
       IN /\ loaded.raised = ""
          /\ (loaded.entries = <<>>) = empty
    /\ session' = [session EXCEPT !.page = page]
    /\ out' = [NoOut EXCEPT !.op = "navigate"]
    /\ UNCHANGED <<users_json, mood_files, registered, appended, procs, probe>>

DashboardLogFirstMood(read) == DashboardGoTo(read, TRUE, "mood_input")
DashboardLogAnother(read) == DashboardGoTo(read, FALSE, "mood_input")
DashboardBackToWelcome(read) == DashboardGoTo(read, FALSE, "welcome_authenticated")

(***************************************************************************)
(* The application on a healthy file system: every read and write works.   *)
(***************************************************************************)
\* what Submit Mood is clicked with: the mood picked, the note typed and the
\* clock reading. The first and the last build equal entries.
SubmitInputs ==
    {<<"Happy", "", [date |-> "2024-01-01", time |-> "09:30:15", microsecond |-> 250000, tz |-> ""]>>,
     <<"Sad", "rainy", [date |-> "2024-01-02", time |-> "00:00:00", microsecond |-> 0, tz |-> ""]>>,
     <<"Happy", "  ", [date |-> "2024-01-01", time |-> "09:30:15", microsecond |-> 250000, tz |-> ""]>>}

Navigate ==
    \/ HomeLogIn \/ HomeSignUp \/ LoginBack \/ SignupBack
    \/ WelcomeCheckIn \/ WelcomeDashboard \/ MoodInputBack \/ Logout

Journal(read, write) ==
    \/ \E i \in SubmitInputs : SubmitMood(i[1], i[2], i[3], read, write)
    \/ DashboardRender(read)
    \/ DashboardLogFirstMood(read)
    \/ DashboardLogAnother(read)
    \/ DashboardBackToWelcome(read)

Next ==
    \/ Navigate
    \/ \E u \in Usernames \cup {""}, p, c \in Passwords \cup {""}, salt \in Salts :
          SignupCreate(u, p, c, salt, "ok", "ok")
    \/ \E u \in Usernames, p \in Passwords : LoginClick(u, p, "ok")
    \/ Journal("ok", "ok")

Spec == Init /\ [][Next]_vars

(***************************************************************************)
(* The application on a file system whose reads and writes can fail.       *)
(***************************************************************************)
AccountPages ==
    \/ HomeLogIn \/ HomeSignUp \/ LoginBack \/ SignupBack \/ Logout

\* the account pages
FaultNext ==
    \/ AccountPages
    \/ \E u \in Usernames, p \in Passwords, salt \in Salts,
          read \in ReadOutcomes, write \in WriteOutcomes :
          SignupCreate(u, p, p, salt, read, write)
    \/ \E u \in Usernames, p \in Passwords, read \in ReadOutcomes :
          LoginClick(u, p, read)

SpecFault == Init /\ [][FaultNext]_vars

\* the whole application, the accounts made with one password on healthy
\* reads and writes, the mood files on failing ones
JournalFaultNext ==
    \/ Navigate
    \/ \E u \in Usernames : SignupCreate(u, "x", "x", "saltA", "ok", "ok")
    \/ \E u \in Usernames : LoginClick(u, "x", "ok")
    \/ \E read \in ReadOutcomes, write \in WriteOutcomes : Journal(read, write)

SpecJournalFault == Init /\ [][JournalFaultNext]_vars

(***************************************************************************)
(* register_user called by independent processes (two browser sessions):  *)
(* each call is a load of users.json, then a save, and nothing keeps the   *)
(* steps of one call from falling between the steps of another.            *)
(***************************************************************************)
\* the password each process registers with
ProcPassword == [p \in Procs |-> IF p = "p1" THEN "x" ELSE "y"]

\* register_user up to the return of self.load()
RegisterLoad(p, username) ==
    /\ procs[p].pc = "idle"
    /\ procs' = [procs EXCEPT ![p] =
                   [IdleProc EXCEPT !.pc = "loaded", !.username = username,
                       !.password = ProcPassword[p], !.salt = "saltA",
                       !.users = load_raw_data(users_json, "ok").data]]
    /\ UNCHANGED <<users_json, mood_files, session, out, registered, appended, probe>>

\* register_user from the `username in users` test to its return
RegisterSave(p) ==
    /\ procs[p].pc = "loaded"
    /\ LET me == procs[p]
           r == register_loaded(users_json, me.users, me.username, me.password,
                                me.salt, "ok")
       IN /\ users_json' = r.file
          /\ procs' = [procs EXCEPT ![p] =
                         [me EXCEPT !.pc = "done", !.ok = r.ok, !.msg = r.msg]]
          /\ registered' =
                IF r.ok /\ me.username \notin DOMAIN registered
                THEN [k \in DOMAIN registered \cup {me.username} |->
                        IF k = me.username
                        THEN [password |-> me.password,
                              hashed_password |-> hashpw(me.password, me.salt)]
                        ELSE registered[k]]
                ELSE registered
    /\ UNCHANGED <<mood_files, session, out, appended, probe>>

\* the caller takes the result; the process is free for another call
RegisterReturn(p) ==
    /\ procs[p].pc = "done"
    /\ procs' = [procs EXCEPT ![p] = IdleProc]
    /\ UNCHANGED <<users_json, mood_files, session, out, registered, appended, probe>>

ConcNext ==
    \/ \E p \in Procs, u \in Usernames : RegisterLoad(p, u)
    \/ \E p \in Procs : RegisterSave(p)
    \/ \E p \in Procs : RegisterReturn(p)

SpecConc == Init /\ [][ConcNext]_vars

(***************************************************************************)
(* MoodEntriesDataManager.load on whatever a mood file may hold.           *)
(***************************************************************************)
GoodEntries ==
    {[mood |-> "Happy", note |-> PyNone,
      timestamp |-> [date |-> "2024-01-01", time |-> "09:30:15",
                     microsecond |-> 250000, tz |-> ""]],
     [mood |-> "Sad", note |-> PyStr("rainy"),
      timestamp |-> [date |-> "2024-01-02", time |-> "00:00:00",
                     microsecond |-> 0, tz |-> ""]]}

\* elements an array in a mood file may have
Elements ==
    {to_dict(e) : e \in GoodEntries}
    \cup {PyDict([mood |-> PyStr("Happy"), timestamp |-> PyStr("2024-01-01")]),
          PyDict([note |-> PyNone, timestamp |-> PyStr("2024-01-01T09:30:15")]),
          PyDict([mood |-> PyStr("Happy"), note |-> PyNone]),
          PyDict([mood |-> PyStr("Happy"), note |-> PyNone,
                  timestamp |-> PyStr("yesterday")]),
          PyDict([mood |-> PyStr("Happy"), note |-> PyNone,
                  timestamp |-> PyInt(1704101415)]),
          PyDict([mood |-> PyStr(""), note |-> PyNone,
                  timestamp |-> PyStr("2024-01-01T09:30:15")]),
          PyDict([mood |-> PyInt(3), note |-> PyNone,
                  timestamp |-> PyStr("2024-01-01T09:30:15")]),
          PyDict(<<>>), PyInt(7), PyStr("Happy"), PyNone}

\* JSON documents a mood file may hold
Documents ==
    {PyNone, PyInt(0), PyInt(7), PyStr(""), PyStr("Happy"), PyDict(<<>>),
     PyDict([mood |-> PyStr("Happy")]), PyList(<<>>)}
    \cup {PyList(<<a>>) : a \in Elements}
    \cup {PyList(<<a, b>>) : a, b \in Elements}

FileContents == {Garbage} \cup {JsonFile(doc) : doc \in Documents}

\* alice is registered and logged in, her dashboard is open, and her mood file
\* holds any of the contents
InitLoad ==
    /\ users_json = JsonFile(WithAccount(PyDict(<<>>), "alice", hashpw("x", "saltA")))
    /\ mood_files \in {[u \in Usernames |-> IF u = "alice" THEN c ELSE Absent] :
                          c \in FileContents}
    /\ session = [logged_in |-> TRUE, username |-> PyStr("alice"), page |-> "dashboard"]
    /\ out = NoOut
    /\ registered = [u \in {"alice"} |->
                        [password |-> "x", hashed_password |-> hashpw("x", "saltA")]]
    /\ appended = [u \in Usernames |-> <<>>]
    /\ procs = [p \in Procs |-> IdleProc]
    /\ probe = NoProbe

LoadNext == DashboardRender("ok")

SpecLoad == InitLoad /\ [][LoadNext]_vars

(***************************************************************************)
(* MoodEntry.to_dict / from_dict and MoodEntriesDataManager.save / load on *)
(* entries of every mood, note and timestamp of the model.                 *)
(***************************************************************************)
ProbeEntries ==
    [mood : {"Happy", "Martian"}, note : {PyNone, PyStr(""), PyStr("rainy")},
     timestamp : Datetimes]

ProbeSequences ==
    {<<>>} \cup {<<e>> : e \in ProbeEntries}
    \cup {<<e, f>> : e \in ProbeEntries, f \in GoodEntries}

InitRoundTrip ==
    /\ users_json = Absent
    /\ mood_files = [u \in Usernames |-> Absent]
    /\ session = InitSession
    /\ out = NoOut
    /\ registered = <<>>
    /\ appended = [u \in Usernames |-> <<>>]
    /\ procs = [p \in Procs |-> IdleProc]
    /\ probe \in {[NoProbe EXCEPT !.stage = "entries", !.entries = es] :
                     es \in ProbeSequences}

\* [entry.to_dict() for entry in entries]
ProbeToDict ==
    /\ probe.stage = "entries"
    /\ probe' = [probe EXCEPT !.stage = "dicts",
                    !.dicts = [i \in 1..Len(probe.entries) |->
                                  to_dict(probe.entries[i])]]
    /\ UNCHANGED <<users_json, mood_files, session, out, registered, appended, procs>>

\* MoodEntry.from_dict of each of the dictionaries
ProbeFromDict ==
    /\ probe.stage = "dicts"
    /\ probe' = [probe EXCEPT !.stage = "back",
                    !.back = [i \in 1..Len(probe.dicts) |->
                                 from_dict(probe.dicts[i])]]
    /\ UNCHANGED <<users_json, mood_files, session, out, registered, appended, procs>>

\* mood_entries_data_manager.save("alice", entries)
ProbeSave ==
    /\ probe.stage = "back"
    /\ LET saved == save_entries(mood_files["alice"], probe.entries, "ok")
       IN /\ mood_files' = [mood_files EXCEPT !["alice"] = saved.file]
          /\ out' = [NoOut EXCEPT !.op = "save", !.user = "alice", !.ok = saved.ok,
                        !.signals = saved.signals]
    /\ probe' = [probe EXCEPT !.stage = "saved"]
    /\ UNCHANGED <<users_json, session, registered, appended, procs>>

\* mood_entries_data_manager.load("alice")
ProbeLoad ==
    /\ probe.stage = "saved"
    /\ LET loaded == load_entries(mood_files["alice"], "ok")
       IN out' = [NoOut EXCEPT !.op = "load", !.user = "alice",
                     !.ok = (loaded.raised = ""), !.raised = loaded.raised,
                     !.entries = loaded.entries, !.signals = loaded.signals]
    /\ probe' = [probe EXCEPT !.stage = "loaded"]
    /\ UNCHANGED <<users_json, mood_files, session, registered, appended, procs>>

RoundTripNext == ProbeToDict \/ ProbeFromDict \/ ProbeSave \/ ProbeLoad

SpecRoundTrip == InitRoundTrip /\ [][RoundTripNext]_vars

(***************************************************************************)
(* Properties of the application on a healthy file system (Spec).          *)
(***************************************************************************)
\* the hashed password users.json holds for a username, "" when it holds none
StoredHash(file, username) ==
    IF file.kind = "json" /\ username \in DOMAIN file.val.v
    THEN file.val.v[username].v.hashed_password.v
    ELSE ""

\* C1 Auth uniqueness: a register_user call for a username whose registration
\* has already succeeded fails with "Username already exists." and leaves
\* users.json, and so the hash stored for that username, as it was.
AuthUniqueness ==
    [][(out'.op = "register" /\ out'.user \in DOMAIN registered)
         => /\ ~out'.ok
            /\ out'.msg = "Username already exists."
            /\ users_json' = users_json
            /\ StoredHash(users_json', out'.user)
                  = registered[out'.user].hashed_password]_vars

\* C1 witness: a second registration of a registered username, with another
\* password, has been refused
AuthUniquenessWitness ==
    /\ out.op = "register"
    /\ out.user \in DOMAIN registered
    /\ out.password # registered[out.user].password
    /\ out.msg = "Username already exists."

\* C2 Auth correctness: authenticate_user succeeds with the password the
\* username was registered with, fails with "Incorrect password." with any
\* other, and fails with "Username not found." for a username that was never
\* registered.
AuthCorrectness ==
    out.op = "authenticate" =>
        IF out.user \notin DOMAIN registered
        THEN ~out.ok /\ out.msg = "Username not found."
        ELSE IF out.password = registered[out.user].password
        THEN out.ok /\ out.msg = "Logged in successfully!"
        ELSE ~out.ok /\ out.msg = "Incorrect password."

\* C2 witness: a registered username was refused with a wrong password while
\* another username is still unregistered
AuthCorrectnessWitness ==
    /\ out.op = "authenticate"
    /\ out.user \in DOMAIN registered
    /\ out.password # registered[out.user].password
    /\ out.msg = "Incorrect password."
    /\ DOMAIN registered # Usernames

\* C3 Append accumulates: a load returns exactly the entries whose Submit Mood
\* succeeded for that user, in the order of the clicks, duplicates included.
AppendAccumulates ==
    /\ \A u \in Usernames :
          LET listed == load_entries(mood_files[u], "ok")
          IN listed.raised = "" /\ listed.entries = appended[u]
    /\ out.op = "load" => out.raised = "" /\ out.entries = appended[out.user]

\* C3 witness: the dashboard loaded three entries, the first and the third
\* equal, the second different
AppendAccumulatesWitness ==
    /\ out.op = "load"
    /\ Len(out.entries) = 3
    /\ out.entries[1] = out.entries[3]
    /\ out.entries[1] # out.entries[2]

(***************************************************************************)
(* Properties of the application on a failing file system.                 *)
(***************************************************************************)
Contains(seq, x) == \E i \in 1..Len(seq) : seq[i] = x

\* what a load that can read the file observes of it
Observed(file) == load_raw_data(file, "ok")

\* C5 Save is atomic: after a handler that saved, a load observes of each file
\* either what it observed before or a complete newly written document, and
\* it observes what it observed before when the save returned false.
SaveAtomic ==
    [][out'.op \in {"register", "append"} =>
         /\ Observed(users_json') # Observed(users_json)
               => out'.ok /\ users_json'.kind = "json"
         /\ \A u \in Usernames :
               Observed(mood_files'[u]) # Observed(mood_files[u])
                  => out'.ok /\ mood_files'[u].kind = "json"]_vars

AccountsNeverDeleted ==
    \A u \in DOMAIN registered :
        StoredHash(users_json, u) = registered[u].hashed_password

\* s is a prefix of t
IsPrefix(s, t) == Len(s) <= Len(t) /\ SubSeq(t, 1, Len(s)) = s

\* the record sequence a mood file holds: what a read that works loads from it
Persisted(file) == load_entries(file, "ok").entries

\* C8 Mood records are never edited or deleted: across every step, what each
\* user's file held before is a prefix of what it holds after.
RecordsNeverDeleted ==
    [][\A u \in Usernames :
          IsPrefix(Persisted(mood_files[u]), Persisted(mood_files'[u]))]_vars

(***************************************************************************)
(* Properties of concurrent registrations (SpecConc).                      *)
(***************************************************************************)
\* the usernames users.json holds
TableUsers(file) == IF file.kind = "json" THEN DOMAIN file.val.v ELSE {}

\* C9 Lost-update race: a register_user call that saves leaves on disk exactly
\* the usernames it had loaded and its own, whatever any other process saved
\* since that load (last writer wins); and no step of a call is ever held back
\* by a call in flight in another process.
LostUpdateRace ==
    [][/\ \A p \in Procs :
             (procs[p].pc = "loaded" /\ procs'[p].pc = "done" /\ procs'[p].ok)
                => TableUsers(users_json')
                      = DOMAIN procs[p].users.v \cup {procs[p].username}
       /\ \A p \in Procs :
             /\ procs[p].pc = "idle" => ENABLED RegisterLoad(p, "alice")
             /\ procs[p].pc = "loaded" => ENABLED RegisterSave(p)]_vars

\* C9 witness: two calls for different usernames have both returned success
\* and users.json holds only one of the two
LostUpdateWitness ==
    \E p, q \in Procs :
        /\ procs[p].pc = "done" /\ procs[p].ok
        /\ procs[q].pc = "done" /\ procs[q].ok
        /\ procs[p].username # procs[q].username
        /\ procs[p].username \in TableUsers(users_json)
        /\ procs[q].username \notin TableUsers(users_json)

(***************************************************************************)
(* Properties of load and of the conversions.                              *)
(***************************************************************************)
WellFormedRecord(d) ==
    /\ d.t = "dict"
    /\ {"mood", "timestamp"} \subseteq DOMAIN d.v
    /\ d.v.mood.t = "str" /\ d.v.mood.v # ""
    /\ d.v.timestamp.t = "str" /\ d.v.timestamp.v \in DOMAIN ParseIso
    /\ "note" \in DOMAIN d.v => d.v.note.t \in {"NoneType", "str"}

\* the file holds a well-formed array of mood records
WellFormed(file) ==
    /\ file.kind = "json"
    /\ file.val.t = "list"
    /\ \A i \in 1..Len(file.val.v) : WellFormedRecord(file.val.v[i])

\* C4 Corrupt-data resilience: a load of a file that exists, is not empty and
\* does not hold a well-formed array of mood records raises nothing, returns
\* no entries and emits the warning.
CorruptDataResilience ==
    (/\ out.op = "load"
     /\ mood_files[out.user].kind \in {"garbage", "json"}
     /\ ~WellFormed(mood_files[out.user]))
        => /\ out.raised = ""
           /\ out.entries = <<>>
           /\ Contains(out.signals, WarnCorrupt)

\* C10 Round-trip: from_dict(to_dict(r)) raises nothing and builds an entry
\* with the mood, note and timestamp of r; a load after a save returns the
\* sequence saved.
RoundTrip ==
    /\ probe.stage \in {"back", "saved", "loaded"} =>
          \A i \in 1..Len(probe.entries) :
              /\ probe.back[i].raised = ""
              /\ probe.back[i].value.mood = probe.entries[i].mood
              /\ probe.back[i].value.note = probe.entries[i].note
              /\ probe.back[i].value.timestamp = probe.entries[i].timestamp
    /\ probe.stage = "loaded" =>
          out.raised = "" /\ out.entries = probe.entries

\* C10 witness: two entries went through both round trips, one of them with
\* a fraction of a second, a UTC offset and no note
RoundTripWitness ==
    /\ probe.stage = "loaded"
    /\ Len(probe.entries) = 2
    /\ probe.entries[1].timestamp.microsecond = 5
    /\ probe.entries[1].timestamp.tz # ""
    /\ probe.entries[1].note = PyNone
    /\ out.entries = probe.entries


(***************************************************************************)
(* dashboard_page on mood files written by save: alice is logged in, her   *)
(* dashboard is open and her file holds any of the sequences below.        *)
(***************************************************************************)
\* the longest sequence of entries put in the file
MaxRecords == 3

\* moods a file can hold: the seven of the selectbox, and strings that are in
\* no list of MOOD_CATEGORIES (a category's own name and another case too)
DashboardMoods ==
    {mood_options[i] : i \in 1..Len(mood_options)} \cup {"Martian", "happy", "Positive"}

\* timestamps as MoodEntry makes them: utcnow(), which has no UTC offset
DashboardEntries ==
    [mood : DashboardMoods, note : {PyNone},
     timestamp : [date : Dates, time : Times, microsecond : {0}, tz : {""}]]

ChartEntries ==
    [mood : {"Happy", "Sad", "Martian"}, note : {PyNone},
     timestamp : [date : Dates, time : {"09:30:15"}, microsecond : {0}, tz : {""}]]

DashboardSequences ==
    {<<e>> : e \in DashboardEntries}
    \cup UNION {[1..k -> ChartEntries] : k \in 0..MaxRecords}

InitDashboard ==
    /\ users_json = JsonFile(WithAccount(PyDict(<<>>), "alice", hashpw("x", "saltA")))
    /\ mood_files \in {[u \in Usernames |->
                          IF u = "alice" THEN save_entries(Absent, es, "ok").file
                          ELSE Absent] : es \in DashboardSequences}
    /\ session = [logged_in |-> TRUE, username |-> PyStr("alice"), page |-> "dashboard"]
    /\ out = NoOut
    /\ registered = [u \in {"alice"} |->
                        [password |-> "x", hashed_password |-> hashpw("x", "saltA")]]
    /\ appended = [u \in Usernames |-> <<>>]
    /\ procs = [p \in Procs |-> IdleProc]
    /\ probe = NoProbe

DashboardNext == DashboardRender("ok")

SpecDashboard == InitDashboard /\ [][DashboardNext]_vars

(***************************************************************************)
(* C11. get_mood_category is total and maps Happy and Excited to           *)
(* "Positive", Neutral to "Neutral", Sad, Angry, Anxious and Tired to      *)
(* "Negative" and every other string to "Unknown"; no mood is in the list  *)
(* of two categories. Stated on the MoodCategory column of the df that     *)
(* dashboard_page builds.                                                  *)
(***************************************************************************)
CategoryOf(mood) ==
    CASE mood \in {"Happy", "Excited"} -> "Positive"
      [] mood = "Neutral" -> "Neutral"
      [] mood \in {"Sad", "Angry", "Anxious", "Tired"} -> "Negative"
      [] OTHER -> "Unknown"

CategoryMapping ==
    /\ \A i \in 1..Len(out.df) : out.df[i].MoodCategory = CategoryOf(out.df[i].Mood)
    /\ Len(out.df) = Len(out.entries)
    /\ \A m \in DashboardMoods :
          Cardinality({i \in 1..Len(MOOD_CATEGORIES) :
                          In(m, MOOD_CATEGORIES[i].moods)}) <= 1

CategoryMappingWitness ==
    /\ out.op = "load"
    /\ Len(out.df) = 1
    /\ out.df[1].Mood = "Positive"
    /\ out.df[1].MoodCategory = "Unknown"

(***************************************************************************)
(* C12. The day-by-category table holds, for every day and category, the   *)
(* number of loaded entries of that day whose mood has that category (0    *)
(* where the table has no such row or column), and its cells add up to the *)
(* number of entries.                                                      *)
(***************************************************************************)
Categories == {"Positive", "Neutral", "Negative", "Unknown"}

\* the cell of a table, 0 for a row or column it does not have
Cell(table, d, c) ==
    IF d \in DOMAIN table /\ c \in DOMAIN table[d] THEN table[d][c] ELSE 0

RECURSIVE SumCells(_, _)
SumCells(table, pairs) ==
    IF pairs = {} THEN 0
    ELSE LET k == CHOOSE k \in pairs : TRUE
         IN Cell(table, k[1], k[2]) + SumCells(table, pairs \ {k})

AggregateCorrectness ==
    (out.op = "load" /\ out.ok) =>
       LET table == out.daily_mood_category_counts
           es == out.entries
       IN /\ \A d \in Dates, c \in Categories :
                Cell(table, d, c) =
                   Cardinality({i \in 1..Len(es) :
                                   /\ es[i].timestamp.date = d
                                   /\ get_mood_category(es[i].mood) = c})
          /\ DOMAIN table \subseteq Dates
          /\ \A d \in DOMAIN table : DOMAIN table[d] \subseteq Categories
          /\ SumCells(table, Dates \X Categories) = Len(es)

AggregateCorrectnessWitness ==
    /\ out.op = "load"
    /\ Len(out.entries) = 3
    /\ <<out.entries[1].mood, out.entries[1].timestamp.date>> = <<"Happy", "2024-01-01">>
    /\ <<out.entries[2].mood, out.entries[2].timestamp.date>> = <<"Sad", "2024-01-01">>
    /\ <<out.entries[3].mood, out.entries[3].timestamp.date>> = <<"Happy", "2024-01-02">>
    /\ out.daily_mood_category_counts =
          [d \in {"2024-01-01", "2024-01-02"} |->
              [c \in {"Positive", "Negative"} |->
                  IF d = "2024-01-02" /\ c = "Negative" THEN 0 ELSE 1]]


(***************************************************************************)
(* C13. The session keeps logged_in and the username from a successful     *)
(* login over every later step that is not a logout; a logout resets the   *)
(* session to logged_in = False, username = None, page = "home"; and a     *)
(* logged-out session gets no authenticated page and stays logged out on   *)
(* every step other than a successful authenticate_user.                   *)
(***************************************************************************)
SessionHeld ==
    [][/\ (out'.op = "authenticate" /\ out'.ok)
             => (session'.logged_in /\ session'.username = PyStr(out'.user))
       /\ (session.logged_in /\ out'.op # "logout")
             => (session'.logged_in /\ session'.username = session.username)
       /\ (out'.op = "logout")
             => (/\ session.logged_in
                 /\ session' = [logged_in |-> FALSE, username |-> PyNone,
                                page |-> "home"])
       /\ (~session.logged_in /\ ~(out'.op = "authenticate" /\ out'.ok))
             => (/\ ~session'.logged_in
                 /\ Route(session') \notin AuthenticatedPages
                 /\ out'.op \notin {"append", "load"})]_vars

\* alice logged in, went to the check-in page, saved an entry and logged out
SessionHeldWitness ==
    /\ out.op = "logout"
    /\ session = [logged_in |-> FALSE, username |-> PyNone, page |-> "home"]
    /\ appended["alice"] # <<>>

(***************************************************************************)
(* C14. A logged-in session carries the username of the authenticate_user  *)
(* call that opened it, a registered one; the routing calls an             *)
(* authenticated page exactly when logged_in holds and a public page       *)
(* exactly when it does not (its redirecting branches are never reached);  *)
(* and a mood file is loaded or written only under the username of the     *)
(* session that is logged in.                                              *)
(***************************************************************************)
AuthGate ==
    [][/\ Route(session) # "rerun"
       /\ Route(session') \in AuthenticatedPages <=> session'.logged_in
       /\ Route(session') \in PublicPages <=> ~session'.logged_in
       /\ session'.logged_in
             => (/\ session'.username \in {PyStr(u) : u \in DOMAIN registered'}
                 /\ IF out'.op = "authenticate"
                    THEN out'.ok /\ session'.username = PyStr(out'.user)
                    ELSE session.logged_in /\ session'.username = session.username)
       /\ out'.op \in {"append", "load"}
             => (session.logged_in /\ session.username = PyStr(out'.user))
       /\ \A u \in Usernames :
             mood_files'[u] # mood_files[u]
                => (session.logged_in /\ session.username = PyStr(u))]_vars

\* bob saves an entry in his session, after alice saved one in hers
AuthGateWitness ==
    /\ session.logged_in
    /\ session.username = PyStr("bob")
    /\ out.op = "append" /\ out.ok /\ out.user = "bob"
    /\ appended["alice"] # <<>>
    /\ appended["bob"] # <<>>

(***************************************************************************)
(* C15. A Submit Mood of user u, its save failing or not, leaves           *)
(* users.json and the mood file of every other username as they were;      *)
(* authenticate_user and a load leave every file as it was. Distinct       *)
(* usernames name distinct mood files, none of them users.json.            *)
(***************************************************************************)
PartitionFrame ==
    [][/\ out'.op = "append"
             => (/\ users_json' = users_json
                 /\ \A v \in Usernames \ {session.username.v} :
                       mood_files'[v] = mood_files[v])
       /\ out'.op \in {"authenticate", "load"}
             => (users_json' = users_json /\ mood_files' = mood_files)
       /\ \A u, v \in Usernames :
             /\ mood_file_path(u) # users_file_path
             /\ mood_file_path(u) = mood_file_path(v) => u = v]_vars

\* bob's Submit Mood wrote his file while alice's held her entry
PartitionFrameWitness ==
    /\ out.op = "append" /\ out.ok /\ out.user = "bob"
    /\ session.username = PyStr("bob")
    /\ mood_files["bob"].kind = "json"
    /\ mood_files["alice"].kind = "json"
    /\ Persisted(mood_files["alice"]) = appended["alice"]
    /\ appended["alice"] # <<>>

====
